---- MODULE Spec2Model ----
(* Generalised tic-tac-toe: the Board state machine (src/src/board.rs), the  *)
(* turn marker (src/src/cell.rs), the controller (src/src/app.rs): its key   *)
(* handler, its renders and the terminal modes App::run acquires and         *)
(* releases, and the Board widget (src/src/board_tui.rs).                    *)
EXTENDS Integers, Sequences, FiniteSets, TLC

VARIABLES cells, selected, size, win_len, win, state, player, score, running, last,
          modes, pc, returned, frame, rendered

vars == <<cells, selected, size, win_len, win, state, player, score, running, last,
          modes, pc, returned, frame, rendered>>

board_vars == <<cells, selected, size, win_len, win, state>>

\* App::run: the terminal modes held (modes), the position in run (pc) and
\* what run returned (returned)
run_vars == <<modes, pc, returned>>

\* the screen: what the last render drew (frame) and the number of renders the
\* last step made (rendered)
screen_vars == <<frame, rendered>>

(* ------------------------------------------------------------------------ *)
(* Bounds of the model                                                      *)
(* ------------------------------------------------------------------------ *)

\* the smallest board side and win length the argument parser accepts
MinSize == 3

\* largest win length explored (win_len in MinSize..MaxWinLen)
MaxWinLen == 3

\* cap of the score counters: marks are placed while both are below it
MaxScore == 1

\* the board shapes explored under the controller, as <<width, height>>
Sizes == {<<MinSize, MinSize>>}

\* the board shapes explored when Board is driven directly
BoardSizes == {<<MinSize, MinSize>>, <<MinSize + 1, MinSize>>, <<MinSize, MinSize + 1>>}

\* largest number of Circle marks in the contents drawn for a grid larger
\* than the smallest one, when the win scanner is applied to any content
MaxCircle == 1

\* largest column and row of the screen at which the board's area of the back
\* buffer starts (buffer.x(), buffer.y() in 0..MaxOrigin)
MaxOrigin == 4

\* the origins the back buffer hands to the widget
Origins == (0..MaxOrigin) \X (0..MaxOrigin)

(* ------------------------------------------------------------------------ *)
(* Values                                                                   *)
(* ------------------------------------------------------------------------ *)

\* enum Cell
Cell == {"Cross", "Circle", "Empty"}

\* Option<T>: None is the empty tuple, Some(v) the one-element tuple
None == <<>>

Some(v) == <<v>>

\* Cell::next of a mutated build: the turn marker never flips
next_same(c) == c

\* Cell::next
next(c) == IF c = "Cross" THEN "Circle" ELSE "Cross"

\* enum Error: the three variants, as <<kind, text>>
ErrorKinds == {"IO", "Msg", "Exit"}

Msg(text) == <<"Msg", text>>

\* Result<Option<Cell>, Error> of Board::set, and the marker of "set not called"
Ok(v) == [tag |-> "Ok", val |-> v, err |-> <<>>]

Err(e) == [tag |-> "Err", val |-> None, err |-> e]

NoCall == [tag |-> "NoCall", val |-> None, err |-> <<>>]

\* usize::saturating_sub
saturating_sub(a, b) == IF a >= b THEN a - b ELSE 0

\* std::cmp::min
min(a, b) == IF a <= b THEN a ELSE b

\* vec![Cell::Empty; n]
EmptyCells(n) == [i \in 1..n |-> "Empty"]

(* ------------------------------------------------------------------------ *)
(* Board: win scanner                                                       *)
(* ------------------------------------------------------------------------ *)

\* self.cells[x + y * self.size.x]; an index outside the vector is a panic,
\* shown as the value "OutOfBounds"
CellAt(c, sz, x, y) ==
    LET id == x + y * sz[1]
    IN IF id >= 0 /\ id < Len(c) THEN c[id + 1] ELSE "OutOfBounds"

\* the four directions check_state tries at a cell, in the order it tries them
Dirs == << <<1, 0>>, <<0, 1>>, <<1, 1>>, <<-1, 1>> >>

\* Board::check_win of a mutated build: the last cell of the run is not compared
check_win_short(c, sz, k, x, y, xd, yd) ==
    \A i \in 1..(k - 2) : CellAt(c, sz, x + i * xd, y + i * yd) = c[x + y * sz[1] + 1]

\* Board::check_win: the win_len - 1 cells after (x,y) along (xd,yd) all equal
\* the cell at (x,y)
check_win(c, sz, k, x, y, xd, yd) ==
    \A i \in 1..(k - 1) : CellAt(c, sz, x + i * xd, y + i * yd) = c[x + y * sz[1] + 1]

\* the direction tests of a mutated build: the bounds test of (-1,1) is off by
\* one
FirstWinDirOff(c, sz, k, x, y) ==
    IF x + k <= sz[1] /\ check_win(c, sz, k, x, y, 1, 0) THEN 1
    ELSE IF y + k <= sz[2]
         THEN IF check_win(c, sz, k, x, y, 0, 1) THEN 2
              ELSE IF x + k <= sz[1] /\ check_win(c, sz, k, x, y, 1, 1) THEN 3
              ELSE IF x >= k /\ check_win(c, sz, k, x, y, -1, 1) THEN 4
              ELSE 0
         ELSE 0

\* the direction tests of a mutated build: the bounds test of (1,0) lets a run
\* start one cell too far to the right
FirstWinDirWide(c, sz, k, x, y) ==
    IF x + k <= sz[1] + 1 /\ check_win(c, sz, k, x, y, 1, 0) THEN 1
    ELSE IF y + k <= sz[2]
         THEN IF check_win(c, sz, k, x, y, 0, 1) THEN 2
              ELSE IF x + k <= sz[1] /\ check_win(c, sz, k, x, y, 1, 1) THEN 3
              ELSE IF x + 1 >= k /\ check_win(c, sz, k, x, y, -1, 1) THEN 4
              ELSE 0
         ELSE 0

\* the direction tests of a mutated build: the column is tried before the row
FirstWinDirColumnFirst(c, sz, k, x, y) ==
    IF y + k <= sz[2] /\ check_win(c, sz, k, x, y, 0, 1) THEN 2
    ELSE IF x + k <= sz[1] /\ check_win(c, sz, k, x, y, 1, 0) THEN 1
    ELSE IF y + k <= sz[2]
         THEN IF x + k <= sz[1] /\ check_win(c, sz, k, x, y, 1, 1) THEN 3
              ELSE IF x + 1 >= k /\ check_win(c, sz, k, x, y, -1, 1) THEN 4
              ELSE 0
         ELSE 0

\* the direction tests check_state makes at the non-Empty cell (x,y): the
\* index in Dirs of the first direction whose bounds test passes and whose
\* check_win is true, 0 when there is none
FirstWinDir(c, sz, k, x, y) ==
    IF x + k <= sz[1] /\ check_win(c, sz, k, x, y, 1, 0) THEN 1
    ELSE IF y + k <= sz[2]
         THEN IF check_win(c, sz, k, x, y, 0, 1) THEN 2
              ELSE IF x + k <= sz[1] /\ check_win(c, sz, k, x, y, 1, 1) THEN 3
              ELSE IF x + 1 >= k /\ check_win(c, sz, k, x, y, -1, 1) THEN 4
              ELSE 0
         ELSE 0

\* the scan of check_state from cell index id on (row-major: x = id % W,
\* y = id / W): the index of the first non-Empty cell with a winning
\* direction, W * H when there is none
RECURSIVE ScanFrom(_, _, _, _)
ScanFrom(c, sz, k, id) ==
    IF id >= sz[1] * sz[2] THEN id
    ELSE IF c[id + 1] # "Empty" /\ FirstWinDir(c, sz, k, id % sz[1], id \div sz[1]) # 0
         THEN id
         ELSE ScanFrom(c, sz, k, id + 1)

\* the draw flag of a mutated build: cleared at every cell, Empty or not
NoEmptyCleared(c) == \A i \in 1..Len(c) : c[i] # c[i]

\* the draw flag at the end of a scan that found no win: no cell is Empty
NoEmpty(c) == \A i \in 1..Len(c) : c[i] # "Empty"

\* the scan's result in a mutated build: a run found is reported as a win of
\* the other mark
ScanResultOther(c, sz, k, w, id) ==
    IF id < sz[1] * sz[2]
    THEN [state |-> Some(next(c[id + 1])),
          win   |-> Some(<<<<id % sz[1], id \div sz[1]>>,
                           Dirs[FirstWinDir(c, sz, k, id % sz[1], id \div sz[1])]>>)]
    ELSE IF NoEmpty(c)
         THEN [state |-> Some("Empty"), win |-> w]
         ELSE [state |-> None, win |-> w]

\* what check_state returns and leaves in self.win when its scan stopped at
\* cell index id (W * H: no win found): the state and the win record
ScanResult(c, sz, k, w, id) ==
    IF id < sz[1] * sz[2]
    THEN [state |-> Some(c[id + 1]),
          win   |-> Some(<<<<id % sz[1], id \div sz[1]>>,
                           Dirs[FirstWinDir(c, sz, k, id % sz[1], id \div sz[1])]>>)]
    ELSE IF NoEmpty(c)
         THEN [state |-> Some("Empty"), win |-> w]
         ELSE [state |-> None, win |-> w]

\* Board::check_state of a mutated build: a full board is a draw before any
\* run is looked for
check_state_draw_first(c, sz, k, w) ==
    IF NoEmpty(c) THEN [state |-> Some("Empty"), win |-> w]
    ELSE ScanResult(c, sz, k, w, ScanFrom(c, sz, k, 0))

\* Board::check_state: row-major scan (y outer, x inner); the first non-Empty
\* cell with a winning direction ends it with Some(cell) and the win record
\* written by check_win; otherwise Some(Empty) when no Empty cell was seen and
\* None when one was.  w is self.win on entry.
check_state(c, sz, k, w) == ScanResult(c, sz, k, w, ScanFrom(c, sz, k, 0))

\* the positions Board::check_win compares from (x,y) on, n comparisons being
\* left: the loop reads self.cells[x + y * size.x], returns at the first cell
\* that differs from cell (an index outside the vector ends it in a panic) and
\* steps by (xd,yd).  Coordinates are the isize sums before the cast back to
\* usize: a negative sum casts to a value of at least 2^63, outside every grid.
RECURSIVE check_win_loop(_, _, _, _, _, _, _, _)
check_win_loop(c, sz, cell, n, x, y, xd, yd) ==
    IF n = 0 THEN {}
    ELSE {<<x, y>>} \cup
         (IF CellAt(c, sz, x, y) # cell THEN {}
          ELSE check_win_loop(c, sz, cell, n - 1, x + xd, y + yd, xd, yd))

\* the positions a call check_win(x, y, xd, yd) reads: (x,y) itself, then the
\* positions of its loop of win_len - 1 comparisons
check_win_reads(c, sz, k, x, y, xd, yd) ==
    {<<x, y>>} \cup
    check_win_loop(c, sz, c[x + y * sz[1] + 1], k - 1, x + xd, y + yd, xd, yd)

\* the direction tests of a mutated build: the bounds test of (-1,1) admits a
\* run that starts one column too far to the left
DirReadsOff(c, sz, k, x, y) ==
    (IF x + k <= sz[1] THEN check_win_reads(c, sz, k, x, y, 1, 0) ELSE {}) \cup
    (IF (x + k <= sz[1] /\ check_win(c, sz, k, x, y, 1, 0)) \/ ~(y + k <= sz[2])
     THEN {}
     ELSE check_win_reads(c, sz, k, x, y, 0, 1) \cup
          (IF check_win(c, sz, k, x, y, 0, 1) THEN {}
           ELSE (IF x + k <= sz[1] THEN check_win_reads(c, sz, k, x, y, 1, 1) ELSE {}) \cup
                (IF x + k <= sz[1] /\ check_win(c, sz, k, x, y, 1, 1) THEN {}
                 ELSE IF x + 2 >= k THEN check_win_reads(c, sz, k, x, y, -1, 1)
                      ELSE {})))

\* the positions read by the direction tests check_state makes at the
\* non-Empty cell (x,y): each check_win whose bounds test passes reads its
\* positions, and the first one that is true ends the tests
DirReads(c, sz, k, x, y) ==
    (IF x + k <= sz[1] THEN check_win_reads(c, sz, k, x, y, 1, 0) ELSE {}) \cup
    (IF (x + k <= sz[1] /\ check_win(c, sz, k, x, y, 1, 0)) \/ ~(y + k <= sz[2])
     THEN {}
     ELSE check_win_reads(c, sz, k, x, y, 0, 1) \cup
          (IF check_win(c, sz, k, x, y, 0, 1) THEN {}
           ELSE (IF x + k <= sz[1] THEN check_win_reads(c, sz, k, x, y, 1, 1) ELSE {}) \cup
                (IF x + k <= sz[1] /\ check_win(c, sz, k, x, y, 1, 1) THEN {}
                 ELSE IF x + 1 >= k THEN check_win_reads(c, sz, k, x, y, -1, 1)
                      ELSE {})))

\* the positions check_state reads from cell index id on: every cell the scan
\* visits, and at a non-Empty one the positions of its direction tests; the
\* scan ends at the first cell with a winning direction
RECURSIVE ScanReadsFrom(_, _, _, _)
ScanReadsFrom(c, sz, k, id) ==
    IF id >= sz[1] * sz[2] THEN {}
    ELSE {<<id % sz[1], id \div sz[1]>>} \cup
         (IF c[id + 1] = "Empty" THEN ScanReadsFrom(c, sz, k, id + 1)
          ELSE DirReads(c, sz, k, id % sz[1], id \div sz[1]) \cup
               (IF FirstWinDir(c, sz, k, id % sz[1], id \div sz[1]) # 0 THEN {}
                ELSE ScanReadsFrom(c, sz, k, id + 1)))

\* the positions of the grid a call of Board::check_state reads
check_state_reads(c, sz, k) == ScanReadsFrom(c, sz, k, 0)

(* ------------------------------------------------------------------------ *)
(* Board: operations.  A board is the record of the fields of struct Board.  *)
(* ------------------------------------------------------------------------ *)

\* Board::new of a mutated build: the vector holds width + height cells
new_bad(width, height, k) ==
    [cells    |-> EmptyCells(width + height),
     selected |-> <<0, 0>>,
     size     |-> <<width, height>>,
     win_len  |-> k,
     win      |-> None,
     state    |-> None]

\* Board::new
new(width, height, k) ==
    [cells    |-> EmptyCells(width * height),
     selected |-> <<0, 0>>,
     size     |-> <<width, height>>,
     win_len  |-> k,
     win      |-> None,
     state    |-> None]

\* Board::restart of a mutated build: the win record survives
restart_keeps_win(b) ==
    [b EXCEPT !.cells = EmptyCells(b.size[1] * b.size[2]), !.state = None]

\* Board::restart
restart(b) ==
    [b EXCEPT !.cells = EmptyCells(b.size[1] * b.size[2]),
              !.state = None,
              !.win   = None]

\* the success arm of Board::set: the cell is written, check_state's result cs
\* is stored and returned
Placed(b, id, cell, cs) ==
    [board |-> [b EXCEPT !.cells[id + 1] = cell, !.state = cs.state, !.win = cs.win],
     res   |-> Ok(cs.state)]

\* Board::set of a mutated build: the occupied cell is overwritten before the
\* error is returned
set_overwrites(b, cell, x, y) ==
    IF b.state # None
    THEN [board |-> b, res |-> Err(Msg("game ended"))]
    ELSE IF b.cells[x + y * b.size[1] + 1] = "Empty"
         THEN Placed(b, x + y * b.size[1], cell,
                     check_state([b.cells EXCEPT ![x + y * b.size[1] + 1] = cell],
                                 b.size, b.win_len, b.win))
         ELSE [board |-> [b EXCEPT !.cells[x + y * b.size[1] + 1] = cell],
               res   |-> Err(Msg("Not empty cell"))]

\* Board::set of a mutated build: the cell is tested before the state
set_cell_test_first(b, cell, x, y) ==
    IF b.cells[x + y * b.size[1] + 1] # "Empty"
    THEN [board |-> b, res |-> Err(Msg("Not empty cell"))]
    ELSE IF b.state # None
         THEN [board |-> b, res |-> Err(Msg("game ended"))]
         ELSE Placed(b, x + y * b.size[1], cell,
                     check_state([b.cells EXCEPT ![x + y * b.size[1] + 1] = cell],
                                 b.size, b.win_len, b.win))

\* Board::set of a mutated build: the finished-game test is missing
set_no_end_test(b, cell, x, y) ==
    IF b.cells[x + y * b.size[1] + 1] = "Empty"
    THEN Placed(b, x + y * b.size[1], cell,
                check_state([b.cells EXCEPT ![x + y * b.size[1] + 1] = cell],
                            b.size, b.win_len, b.win))
    ELSE [board |-> b, res |-> Err(Msg("Not empty cell"))]

\* Board::set of a mutated build: the mark is written at the transposed index
\* y + x * size.x
set_transposed(b, cell, x, y) ==
    IF b.state # None
    THEN [board |-> b, res |-> Err(Msg("game ended"))]
    ELSE IF b.cells[x + y * b.size[1] + 1] = "Empty"
         THEN Placed(b, y + x * b.size[1], cell,
                     check_state([b.cells EXCEPT ![y + x * b.size[1] + 1] = cell],
                                 b.size, b.win_len, b.win))
         ELSE [board |-> b, res |-> Err(Msg("Not empty cell"))]

\* Board::set.  Returns the board after the call and the call's result; the
\* Ok value is the state the call stored (what App::key_handler matches on).
\* The cell index is id = x + y * size.x.
set(b, cell, x, y) ==
    IF b.state # None
    THEN [board |-> b, res |-> Err(Msg("game ended"))]
    ELSE IF b.cells[x + y * b.size[1] + 1] = "Empty"
         THEN Placed(b, x + y * b.size[1], cell,
                     check_state([b.cells EXCEPT ![x + y * b.size[1] + 1] = cell],
                                 b.size, b.win_len, b.win))
         ELSE [board |-> b, res |-> Err(Msg("Not empty cell"))]

\* Board::set_selected
set_selected(b, cell) == set(b, cell, b.selected[1], b.selected[2])

\* Board::up
up(b) == [b EXCEPT !.selected[2] = saturating_sub(b.selected[2], 1)]

\* Board::down of a mutated build: clamps at size.y instead of size.y - 1
down_off(b) == [b EXCEPT !.selected[2] = min(b.selected[2] + 1, b.size[2])]

\* Board::down
down(b) == [b EXCEPT !.selected[2] = min(b.selected[2] + 1, b.size[2] - 1)]

\* Board::left
left(b) == [b EXCEPT !.selected[1] = saturating_sub(b.selected[1], 1)]

\* Board::right
right(b) == [b EXCEPT !.selected[1] = min(b.selected[1] + 1, b.size[1] - 1)]

(* ------------------------------------------------------------------------ *)
(* Board as a widget (src/src/board_tui.rs).  A render is the sequence of   *)
(* the writes it makes to the buffer, in order, at positions relative to    *)
(* the buffer's origin.  A write sets the character, the colour or both of  *)
(* one position; Keep stands for the part a write leaves as it is.  The     *)
(* characters outside ASCII are named by their code points.                 *)
(* ------------------------------------------------------------------------ *)

Keep == "Keep"

Put(x, y, ch, fg) == [x |-> x, y |-> y, ch |-> ch, fg |-> fg]

\* str.repeat(n), a string being the sequence of its characters
repeat(str, n) == [i \in 1..(Len(str) * n) |-> str[((i - 1) % Len(str)) + 1]]

\* buffer.set_str_styled(str, (x, y), Style::new().fg(fg))
set_str_styled(str, x, y, fg) == [i \in 1..Len(str) |-> Put(x + i - 1, y, str[i], fg)]

\* buffer.set_str(str, (x, y))
set_str(str, x, y) == set_str_styled(str, x, y, Keep)

\* buffer.set_val(val, (x, y))
set_val(val, x, y) == <<Put(x, y, val, Keep)>>

\* Widget::height
height(b) == b.size[2] * 2 + 1

\* Widget::width
width(b) == b.size[1] * 4

\* Board::border_part
border_part(val, x, y) == <<Put(x, y, val, "Gray")>>

\* Board::render_cell
render_cell(val, col, x, y) == <<Put(x, y, val, col)>>

\* Board::win_color
win_color(b, pos) ==
    LET c == b.cells[pos[1] + pos[2] * b.size[1] + 1]
    IN IF c = "Cross" THEN "Green" ELSE IF c = "Circle" THEN "Red" ELSE "Default"

\* Board::cross_hor of a mutated build: one dash for each cell of the run
cross_hor_short(b, pos) ==
    [i \in 1..b.win_len |->
        Put(pos[1] * 4 + 1 + 2 * (i - 1), pos[2] * 2 + 1, "-", win_color(b, pos))]

\* Board::cross_hor: win_len * 2 dashes, two columns apart
cross_hor(b, pos) ==
    [i \in 1..(b.win_len * 2) |->
        Put(pos[1] * 4 + 1 + 2 * (i - 1), pos[2] * 2 + 1, "-", win_color(b, pos))]

\* Board::cross_win of a mutated build: the line glyph is written at every
\* half step as well
cross_win_dense(b, pos, d, bc, fc, ac, off) ==
    LET px  == pos[1] * 4 + off[1]
        py  == pos[2] * 2 + off[2]
        col == win_color(b, pos)
    IN [i \in 1..(3 * b.win_len + 1) |->
           LET j == (i - 1) \div 3
               r == (i - 1) % 3
               x == px + 4 * d[1] * j
               y == py + 2 * d[2] * j
           IN IF r = 0 THEN Put(x, y, bc, col)
              ELSE IF r = 1 THEN Put(x + 2 * d[1], y + d[2], bc, col)
              ELSE Put(x + 2 * d[1] + 1, y + d[2], ac, col)]

\* Board::cross_win: win_len rounds, each writing the line glyph bc at p, then,
\* half a step on, fc to the left and ac to the right of p, then moving p the
\* other half step; a last bc at p after the loop.  Write 3j + 1 is the bc of
\* round j, 3j + 2 its fc, 3j + 3 its ac.
cross_win(b, pos, d, bc, fc, ac, off) ==
    LET px  == pos[1] * 4 + off[1]
        py  == pos[2] * 2 + off[2]
        col == win_color(b, pos)
    IN [i \in 1..(3 * b.win_len + 1) |->
           LET j == (i - 1) \div 3
               r == (i - 1) % 3
               x == px + 4 * d[1] * j
               y == py + 2 * d[2] * j
           IN IF r = 0 THEN Put(x, y, bc, col)
              ELSE IF r = 1 THEN Put(x + 2 * d[1] - 1, y + d[2], fc, col)
              ELSE Put(x + 2 * d[1] + 1, y + d[2], ac, col)]

\* Board::render_win
render_win(b) ==
    IF b.win = None THEN <<>>
    ELSE LET pos == b.win[1][1]
             d   == b.win[1][2]
         IN IF d = <<1, 0>> THEN cross_hor(b, pos)
            ELSE IF d = <<0, 1>> THEN cross_win(b, pos, d, "|", " ", " ", <<2, 0>>)
            ELSE IF d = <<1, 1>> THEN cross_win(b, pos, d, "\\", "U+0060", "U+2E41", <<0, 0>>)
            ELSE IF d = <<-1, 1>> THEN cross_win(b, pos, d, "/", ",", "'", <<4, 0>>)
            ELSE <<>>

\* the top and the bottom string of the cursor frame: the match of render_sel,
\* arm by arm
SelFrame(b) ==
    LET x == b.selected[1]
        y == b.selected[2]
        lastx == x + 1 = b.size[1]
        lasty == y + 1 = b.size[2]
        bar == <<"U+2501", "U+2501", "U+2501">>
    IN IF x = 0 /\ y = 0 THEN << <<"U+250F">> \o bar \o <<"U+2531">>, <<"U+2521">> \o bar \o <<"U+2543">> >>
       ELSE IF x = 0 /\ lasty THEN << <<"U+2522">> \o bar \o <<"U+2545">>, <<"U+2517">> \o bar \o <<"U+2539">> >>
       ELSE IF y = 0 /\ lastx THEN << <<"U+2532">> \o bar \o <<"U+2513">>, <<"U+2544">> \o bar \o <<"U+2529">> >>
       ELSE IF lastx /\ lasty THEN << <<"U+2546">> \o bar \o <<"U+252A">>, <<"U+253A">> \o bar \o <<"U+251B">> >>
       ELSE IF y = 0 THEN << <<"U+2532">> \o bar \o <<"U+2531">>, <<"U+2544">> \o bar \o <<"U+2543">> >>
       ELSE IF lasty THEN << <<"U+2546">> \o bar \o <<"U+2545">>, <<"U+253A">> \o bar \o <<"U+2539">> >>
       ELSE IF x = 0 THEN << <<"U+2522">> \o bar \o <<"U+2545">>, <<"U+2521">> \o bar \o <<"U+2543">> >>
       ELSE IF lastx THEN << <<"U+2546">> \o bar \o <<"U+252A">>, <<"U+2544">> \o bar \o <<"U+2529">> >>
       ELSE << <<"U+2546">> \o bar \o <<"U+2545">>, <<"U+2544">> \o bar \o <<"U+2543">> >>

\* Board::render_sel
render_sel(b) ==
    LET sel_x == b.selected[1] * 4
        sel_y == b.selected[2] * 2
        tb    == SelFrame(b)
    IN set_str(tb[1], sel_x, sel_y)
       \o set_str(tb[2], sel_x, sel_y + 2)
       \o set_val("U+2503", sel_x, sel_y + 1)
       \o set_val("U+2503", sel_x + 4, sel_y + 1)

\* the write render_cells makes for cell index id (none for an Empty cell)
CellWrite(b, id) ==
    LET x == 2 + 4 * (id % b.size[1])
        y == 1 + 2 * (id \div b.size[1])
    IN IF b.cells[id + 1] = "Cross" THEN <<Put(x, y, "X", "Green")>>
       ELSE IF b.cells[id + 1] = "Circle" THEN <<Put(x, y, "O", "Red")>>
       ELSE <<>>

\* the writes of render_cells from cell index id on
RECURSIVE CellWritesFrom(_, _)
CellWritesFrom(b, id) ==
    IF id >= b.size[1] * b.size[2] THEN <<>>
    ELSE CellWrite(b, id) \o CellWritesFrom(b, id + 1)

\* Board::render_cells
render_cells(b) == CellWritesFrom(b, 0)

\* the writes of the loop of render_outer, round j: two of the left column,
\* two of the right column
OuterRound(b, j) ==
    border_part("U+2502", 0, 1 + 2 * j)
    \o border_part("U+251C", 0, 2 + 2 * j)
    \o border_part("U+2502", b.size[1] * 4, 1 + 2 * j)
    \o border_part("U+2524", b.size[1] * 4, 2 + 2 * j)

RECURSIVE OuterRoundsFrom(_, _)
OuterRoundsFrom(b, j) ==
    IF j >= b.size[2] THEN <<>>
    ELSE OuterRound(b, j) \o OuterRoundsFrom(b, j + 1)

\* Board::render_outer
render_outer(b) ==
    LET ybottom == b.size[2] * 2
        xright  == b.size[1] * 4
    IN set_str_styled(repeat(<<"U+2500", "U+2500", "U+2500", "U+252C">>, b.size[1]), 1, 0, "Gray")
       \o set_str_styled(repeat(<<"U+2500", "U+2500", "U+2500", "U+2534">>, b.size[1]), 1, ybottom, "Gray")
       \o OuterRoundsFrom(b, 0)
       \o border_part("U+250C", 0, 0)
       \o border_part("U+2510", xright, 0)
       \o border_part("U+2518", xright, ybottom)
       \o border_part("U+2514", 0, ybottom)

\* the lines line written at the rows y0, y0 + 2, ... below row ymax
RECURSIVE InnerLines(_, _, _)
InnerLines(line, y, ymax) ==
    IF y >= ymax THEN <<>>
    ELSE set_str_styled(line, 1, y, "Gray") \o InnerLines(line, y + 2, ymax)

\* Board::render_inner
render_inner(b) ==
    InnerLines(repeat(<<"U+2500", "U+2500", "U+2500", "U+253C">>, b.size[1]), 2, b.size[2] * 2)
    \o InnerLines(repeat(<<" ", " ", " ", "U+2502">>, b.size[1]), 1, b.size[2] * 2)

\* Widget::render for Board: the five layers in order
Board_render(b) ==
    render_inner(b) \o render_outer(b) \o render_cells(b) \o render_sel(b) \o render_win(b)

(* ------------------------------------------------------------------------ *)
(* Board: the strike-through of board.rs.  Each function moves a variable   *)
(* of type Coords (usize fields) from the buffer's origin org along the     *)
(* run, with += and -=.  It is modelled as the sequence of the values the   *)
(* variable takes, as integers: the value a write is made at carries the    *)
(* glyph and the colour written, a value nothing is written at carries      *)
(* NoWrite.  A value below 0 is a usize subtraction that overflowed.         *)
(* ------------------------------------------------------------------------ *)

NoWrite == "NoWrite"

\* a value of the variable at which nothing is written
At(x, y) == [x |-> x, y |-> y, ch |-> NoWrite, fg |-> Keep]

\* Board::render_win_hor: win_len * 2 rounds of write, pos.x += 2
render_win_hor(b, org, pos) ==
    [n \in 1..(2 * b.win_len + 1) |->
        LET x == org[1] + pos[1] * 4 + 1 + 2 * (n - 1)
            y == org[2] + pos[2] * 2 + 1
        IN IF n <= 2 * b.win_len THEN Put(x, y, "-", win_color(b, pos))
           ELSE At(x, y)]

\* Board::render_win_ver: win_len + 1 rounds of write, pos.y += 2
render_win_ver(b, org, pos) ==
    [n \in 1..(b.win_len + 2) |->
        LET x == org[1] + pos[1] * 4 + 2
            y == org[2] + pos[2] * 2 + 2 * (n - 1)
        IN IF n <= b.win_len + 1 THEN Put(x, y, "|", win_color(b, pos))
           ELSE At(x, y)]

\* the first loop of render_win_db (sx = 4) and of render_win_df (sx = -4)
\* from (x0, y0): win_len + 1 rounds of write, coords.x += sx, coords.y += 2.
\* Value 2i + 1 is the write of round i, value 2i + 2 follows the step of x;
\* the step of y gives the next round's value
diagonal_line(b, pos, x0, y0, sx, bc) ==
    [n \in 1..(2 * (b.win_len + 1) + 1) |->
        LET i == (n - 1) \div 2
            r == (n - 1) % 2
        IN IF r = 0 /\ i <= b.win_len
           THEN Put(x0 + sx * i, y0 + 2 * i, bc, win_color(b, pos))
           ELSE IF r = 0 THEN At(x0 + sx * i, y0 + 2 * i)
           ELSE At(x0 + sx * (i + 1), y0 + 2 * i)]

\* the second loop of render_win_db (sx = 2) and of render_win_df (sx = -2)
\* from (x0, y0): win_len rounds of write fc, coords.x += sx, write ac,
\* coords.x += sx, coords.y += 2.  Value 3i + 1 is the write of fc in round i,
\* 3i + 2 that of ac, 3i + 3 follows the second step of x
diagonal_fill(b, pos, x0, y0, sx, fc, ac) ==
    [n \in 1..(3 * b.win_len + 1) |->
        LET i == (n - 1) \div 3
            r == (n - 1) % 3
            x == x0 + 2 * sx * i
            y == y0 + 2 * i
        IN IF i = b.win_len THEN At(x, y)
           ELSE IF r = 0 THEN Put(x, y, fc, win_color(b, pos))
           ELSE IF r = 1 THEN Put(x + sx, y, ac, win_color(b, pos))
           ELSE At(x + 2 * sx, y)]

\* Board::render_win_db
render_win_db(b, org, pos) ==
    diagonal_line(b, pos, org[1] + pos[1] * 4, org[2] + pos[2] * 2, 4, "\\")
    \o diagonal_fill(b, pos, org[1] + pos[1] * 4 + 1, org[2] + pos[2] * 2 + 1, 2,
                     "U+0060", "U+2E41")

\* Board::render_win_df
render_win_df(b, org, pos) ==
    diagonal_line(b, pos, org[1] + pos[1] * 4 + 4, org[2] + pos[2] * 2, -4, "/")
    \o diagonal_fill(b, pos, org[1] + pos[1] * 4 + 3, org[2] + pos[2] * 2 + 1, -2,
                     "'", ",")

\* Board::render_win of board.rs
render_win_match(b, org) ==
    IF b.win = None THEN <<>>
    ELSE LET pos == b.win[1][1]
             d   == b.win[1][2]
         IN IF d = <<1, 0>> THEN render_win_hor(b, org, pos)
            ELSE IF d = <<0, 1>> THEN render_win_ver(b, org, pos)
            ELSE IF d = <<1, 1>> THEN render_win_db(b, org, pos)
            ELSE render_win_df(b, org, pos)

(* ------------------------------------------------------------------------ *)
(* App: the controller                                                      *)
(* ------------------------------------------------------------------------ *)

\* self.board
Board ==
    [cells |-> cells, selected |-> selected, size |-> size,
     win_len |-> win_len, win |-> win, state |-> state]

\* the assignment self.board = b
BoardBecomes(b) ==
    /\ cells'    = b.cells
    /\ selected' = b.selected
    /\ size'     = b.size
    /\ win_len'  = b.win_len
    /\ win'      = b.win
    /\ state'    = b.state

\* the key codes App::key_handler tells apart, by match arm
UpKeys == {"Up", "k"}

DownKeys == {"Down", "j"}

RightKeys == {"Right", "l"}

LeftKeys == {"Left", "h"}

QuitKeys == {"Ctrl-c", "Esc", "q"}

\* the last handled event: the match arm that took it ("new" before the first
\* event), what Board::set returned in it (NoCall when it was not called) and
\* what the handler returned
Last(key, res, ret) == [key |-> key, set |-> res, ret |-> ret]

\* the three terminal modes of App::run: alternate screen entered, cursor
\* hidden, raw mode enabled
Modes(alt, hidden, raw) == [alt |-> alt, hidden |-> hidden, raw |-> raw]

\* what App::render hands to the terminal: the state line (state, player,
\* score) and a clone of the board
Frame == [board |-> Board, player |-> player, score |-> score]

\* self.render() of a mutated build: the handler draws the screen before it
\* changes the state
render_before ==
    /\ frame' = Some(Frame)
    /\ rendered' = 1

\* self.render() as the last call of a handler: the screen shows the state the
\* handler leaves
render ==
    /\ frame' = Some(Frame')
    /\ rendered' = 1

\* a handler that returns without calling self.render()
no_render ==
    /\ frame' = frame
    /\ rendered' = 0

\* App::new followed by the entry of App::run up to the first render of
\* main_loop: the board is Board::new(w, h, win), the player Cross, the score
\* (0, 0), the three modes are held and the new board is on the screen
Init ==
    \E sz \in Sizes, k \in MinSize..MaxWinLen :
        LET b == new(sz[1], sz[2], k)
        IN /\ cells    = b.cells
           /\ selected = b.selected
           /\ size     = b.size
           /\ win_len  = b.win_len
           /\ win      = b.win
           /\ state    = b.state
           /\ player   = "Cross"
           /\ score    = <<0, 0>>
           /\ running  = TRUE
           /\ last     = Last("new", NoCall, "Ok")
           /\ modes    = Modes(TRUE, TRUE, TRUE)
           /\ pc       = "loop"
           /\ returned = None
           /\ frame    = Some([board |-> b, player |-> "Cross", score |-> <<0, 0>>])
           /\ rendered = 1

\* KeyCode::Up | KeyCode::Char('k') => self.board.up()
KeyUp ==
    /\ running
    /\ \E key \in UpKeys : last' = Last("Up", NoCall, "Ok")
    /\ BoardBecomes(up(Board))
    /\ UNCHANGED <<player, score, running, run_vars>>
    /\ render

\* KeyCode::Down | KeyCode::Char('j') => self.board.down()
KeyDown ==
    /\ running
    /\ \E key \in DownKeys : last' = Last("Down", NoCall, "Ok")
    /\ BoardBecomes(down(Board))
    /\ UNCHANGED <<player, score, running, run_vars>>
    /\ render

\* KeyCode::Right | KeyCode::Char('l') => self.board.right()
KeyRight ==
    /\ running
    /\ \E key \in RightKeys : last' = Last("Right", NoCall, "Ok")
    /\ BoardBecomes(right(Board))
    /\ UNCHANGED <<player, score, running, run_vars>>
    /\ render

\* KeyCode::Left | KeyCode::Char('h') => self.board.left()
KeyLeft ==
    /\ running
    /\ \E key \in LeftKeys : last' = Last("Left", NoCall, "Ok")
    /\ BoardBecomes(left(Board))
    /\ UNCHANGED <<player, score, running, run_vars>>
    /\ render

\* the score of a mutated build: a draw is counted for Cross alone
ScoreAfterDrawCross(r) ==
    IF r.tag # "Ok" THEN score
    ELSE IF r.val = Some("Cross") THEN <<score[1] + 1, score[2]>>
    ELSE IF r.val = Some("Circle") THEN <<score[1], score[2] + 1>>
    ELSE IF r.val = Some("Empty") THEN <<score[1] + 1, score[2]>>
    ELSE score

\* the score after the Enter arm matched r, the result of set_selected
ScoreAfter(r) ==
    IF r.tag # "Ok" THEN score
    ELSE IF r.val = Some("Cross") THEN <<score[1] + 1, score[2]>>
    ELSE IF r.val = Some("Circle") THEN <<score[1], score[2] + 1>>
    ELSE IF r.val = Some("Empty") THEN <<score[1] + 1, score[2] + 1>>
    ELSE score

\* the Enter arm of a mutated build: every Ok advances the turn
PlayerAfterAlways(r) == IF r.tag = "Ok" THEN next(player) ELSE player

\* the player after the Enter arm matched r: only Ok(None), the last Ok arm,
\* advances the turn
PlayerAfter(r) ==
    IF r.tag = "Ok" /\ r.val = None THEN next(player) ELSE player

\* KeyCode::Enter => match self.board.set_selected(self.player) { ... }
\* (explored while both counters are below MaxScore)
KeyEnter ==
    /\ running
    /\ score[1] < MaxScore
    /\ score[2] < MaxScore
    /\ \E r \in {set_selected(Board, player)} :
          /\ BoardBecomes(r.board)
          /\ score'  = ScoreAfter(r.res)
          /\ player' = PlayerAfter(r.res)
          /\ last'   = Last("Enter", r.res, "Ok")
    /\ UNCHANGED <<running, run_vars>>
    /\ render

\* the 'r' arm of a mutated build: the board restarts, the player stays
KeyRestartKeepsPlayer ==
    /\ running
    /\ BoardBecomes(restart(Board))
    /\ player' = player
    /\ last' = Last("r", NoCall, "Ok")
    /\ UNCHANGED <<score, running, run_vars>>
    /\ render

\* KeyCode::Char('r') => { self.board.restart(); self.player = Cell::Cross; }
KeyRestart ==
    /\ running
    /\ BoardBecomes(restart(Board))
    /\ player' = "Cross"
    /\ last' = Last("r", NoCall, "Ok")
    /\ UNCHANGED <<score, running, run_vars>>
    /\ render

\* the 'R' arm of a mutated build: it restarts the game as the 'r' arm does
KeyResetScoreRestarts ==
    /\ running
    /\ BoardBecomes(restart(Board))
    /\ player' = "Cross"
    /\ last' = Last("R", NoCall, "Ok")
    /\ UNCHANGED <<score, running, run_vars>>
    /\ render

\* KeyCode::Char('R') => self.score = (0, 0)
KeyResetScore ==
    /\ running
    /\ score' = <<0, 0>>
    /\ last' = Last("R", NoCall, "Ok")
    /\ UNCHANGED <<board_vars, player, running, run_vars>>
    /\ render

\* Ctrl-c, Esc and 'q' => return Err(Error::Exit), which ends main_loop
KeyQuit ==
    /\ running
    /\ \E key \in QuitKeys : last' = Last("Quit", NoCall, "Exit")
    /\ running' = FALSE
    /\ UNCHANGED <<board_vars, player, score, run_vars>>
    /\ no_render

\* _ => return Ok(()): any other key; App::event's _ => Ok(()): any event
\* that is neither a key nor a resize
KeyOther ==
    /\ running
    /\ last' = Last("Other", NoCall, "Ok")
    /\ UNCHANGED <<board_vars, player, score, running, run_vars>>
    /\ no_render

\* Event::Resize(_, _) => self.render()
Resize ==
    /\ running
    /\ last' = Last("Resize", NoCall, "Ok")
    /\ UNCHANGED <<board_vars, player, score, running, run_vars>>
    /\ render

Next ==
    \/ KeyUp
    \/ KeyDown
    \/ KeyRight
    \/ KeyLeft
    \/ KeyEnter
    \/ KeyRestart
    \/ KeyResetScore
    \/ KeyQuit
    \/ KeyOther
    \/ Resize

Spec == Init /\ [][Next]_vars

(* ------------------------------------------------------------------------ *)
(* App::run from its first statement to its return: the modes it acquires,  *)
(* the main loop and its ends, and the release of the modes.                *)
(* ------------------------------------------------------------------------ *)

\* App::new, before App::run is called
InitRun ==
    \E sz \in Sizes, k \in MinSize..MaxWinLen :
        LET b == new(sz[1], sz[2], k)
        IN /\ cells    = b.cells
           /\ selected = b.selected
           /\ size     = b.size
           /\ win_len  = b.win_len
           /\ win      = b.win
           /\ state    = b.state
           /\ player   = "Cross"
           /\ score    = <<0, 0>>
           /\ running  = FALSE
           /\ last     = Last("new", NoCall, "Ok")
           /\ modes    = Modes(FALSE, FALSE, FALSE)
           /\ pc       = "start"
           /\ returned = None
           /\ frame    = None
           /\ rendered = 0

\* print!("\x1b[?1049h\x1b[2J\x1b[?25l"): the alternate screen is entered and
\* the cursor hidden
RunEnter ==
    /\ pc = "start"
    /\ modes' = [modes EXCEPT !.alt = TRUE, !.hidden = TRUE]
    /\ pc' = "enable"
    /\ UNCHANGED <<board_vars, player, score, running, last, returned, screen_vars>>

\* enable_raw_mode()?: raw mode is enabled, or the call fails and run returns
\* its error at once
EnableRaw ==
    /\ pc = "enable"
    /\ \E ok \in BOOLEAN :
          IF ok
          THEN /\ modes' = [modes EXCEPT !.raw = TRUE]
               /\ pc' = "main_loop"
               /\ returned' = returned
          ELSE /\ modes' = modes
               /\ pc' = "done"
               /\ returned' = Some("IO")
    /\ UNCHANGED <<board_vars, player, score, running, last, screen_vars>>

\* the first statement of main_loop, self.render()?: the new board is drawn
\* and the loop starts, or the render fails and main_loop returns its error
FirstRender ==
    /\ pc = "main_loop"
    /\ pc' = "loop"
    /\ UNCHANGED <<board_vars, player, score, modes, returned>>
    /\ \E ok \in BOOLEAN :
          IF ok
          THEN /\ running' = TRUE
               /\ last' = last
               /\ render
          ELSE /\ running' = FALSE
               /\ last' = Last("IO", NoCall, "IO")
               /\ UNCHANGED screen_vars

\* poll(..)?, read()? or a handler's self.render()? fails: main_loop returns
\* the IO error
IoError ==
    /\ running
    /\ running' = FALSE
    /\ last' = Last("IO", NoCall, "IO")
    /\ UNCHANGED <<board_vars, player, score, run_vars>>
    /\ no_render

\* the end of run in a mutated build: res is returned as it is, Err(Exit) too
RunLeaveExitIsError ==
    /\ pc = "loop"
    /\ ~running
    /\ pc' = "done"
    /\ \E ok \in BOOLEAN :
          IF ok
          THEN /\ modes' = Modes(FALSE, FALSE, FALSE)
               /\ returned' = Some(last.ret)
          ELSE /\ modes' = modes
               /\ returned' = Some("IO")
    /\ UNCHANGED <<board_vars, player, score, running, last, screen_vars>>

\* the statements of run after main_loop returned res (the result of the last
\* handler): disable_raw_mode()? returns its error at once when it fails;
\* otherwise the screen is restored and the cursor shown, and run returns
\* Ok(()) for Err(Exit) and res for everything else
RunLeave ==
    /\ pc = "loop"
    /\ ~running
    /\ pc' = "done"
    /\ \E ok \in BOOLEAN :
          IF ok
          THEN /\ modes' = Modes(FALSE, FALSE, FALSE)
               /\ returned' = Some(IF last.ret = "Exit" THEN "Ok" ELSE last.ret)
          ELSE /\ modes' = modes
               /\ returned' = Some("IO")
    /\ UNCHANGED <<board_vars, player, score, running, last, screen_vars>>

NextRun ==
    \/ RunEnter
    \/ EnableRaw
    \/ FirstRender
    \/ Next
    \/ IoError
    \/ RunLeave

SpecRun == InitRun /\ [][NextRun]_vars

(* ------------------------------------------------------------------------ *)
(* Board driven directly: Board::new(W, H, K) for several shapes, then       *)
(* Board::set at any coordinates and Board::restart, by a caller that        *)
(* alternates the marks as the controller does.                              *)
(* ------------------------------------------------------------------------ *)

InitBoard ==
    \E sz \in BoardSizes, k \in MinSize..MaxWinLen :
        LET b == new(sz[1], sz[2], k)
        IN /\ cells    = b.cells
           /\ selected = b.selected
           /\ size     = b.size
           /\ win_len  = b.win_len
           /\ win      = b.win
           /\ state    = b.state
           /\ player   = "Cross"
           /\ score    = <<0, 0>>
           /\ running  = TRUE
           /\ last     = Last("new", NoCall, "Ok")
           /\ modes    = Modes(FALSE, FALSE, FALSE)
           /\ pc       = "start"
           /\ returned = None
           /\ frame    = None
           /\ rendered = 0

\* board.set(player, x, y) at any Empty cell (x,y) of the grid, in games in
\* progress and in finished ones (calls on taken cells are explored under the
\* controller)
BoardSet ==
    \E x \in 0..(size[1] - 1), y \in 0..(size[2] - 1) :
        /\ cells[x + y * size[1] + 1] = "Empty"
        /\ \E r \in {set(Board, player, x, y)} :
              /\ BoardBecomes(r.board)
              /\ player' = PlayerAfter(r.res)
              /\ last'   = Last("set", r.res, "Ok")
              /\ UNCHANGED <<score, running, run_vars, screen_vars>>

\* board.restart(), the caller starting again with Cross
BoardRestart ==
    /\ BoardBecomes(restart(Board))
    /\ player' = "Cross"
    /\ last' = Last("restart", NoCall, "Ok")
    /\ UNCHANGED <<score, running, run_vars, screen_vars>>

NextBoard ==
    \/ BoardSet
    \/ BoardRestart

SpecBoard == InitBoard /\ [][NextBoard]_vars

(* ------------------------------------------------------------------------ *)
(* Board driven through its cursor: Board::new, then Board::up, down, left, *)
(* right, Board::set_selected and Board::restart in any order, by a caller  *)
(* that alternates the marks as the controller does.                        *)
(* ------------------------------------------------------------------------ *)

InitCursor ==
    \E sz \in Sizes, k \in MinSize..MaxWinLen :
        LET b == new(sz[1], sz[2], k)
        IN /\ cells    = b.cells
           /\ selected = b.selected
           /\ size     = b.size
           /\ win_len  = b.win_len
           /\ win      = b.win
           /\ state    = b.state
           /\ player   = "Cross"
           /\ score    = <<0, 0>>
           /\ running  = TRUE
           /\ last     = Last("new", NoCall, "Ok")
           /\ modes    = Modes(FALSE, FALSE, FALSE)
           /\ pc       = "start"
           /\ returned = None
           /\ frame    = None
           /\ rendered = 0

\* board.up()
BoardUp ==
    /\ BoardBecomes(up(Board))
    /\ last' = Last("up", NoCall, "Ok")
    /\ UNCHANGED <<player, score, running, run_vars, screen_vars>>

\* board.down()
BoardDown ==
    /\ BoardBecomes(down(Board))
    /\ last' = Last("down", NoCall, "Ok")
    /\ UNCHANGED <<player, score, running, run_vars, screen_vars>>

\* board.left()
BoardLeft ==
    /\ BoardBecomes(left(Board))
    /\ last' = Last("left", NoCall, "Ok")
    /\ UNCHANGED <<player, score, running, run_vars, screen_vars>>

\* board.right()
BoardRight ==
    /\ BoardBecomes(right(Board))
    /\ last' = Last("right", NoCall, "Ok")
    /\ UNCHANGED <<player, score, running, run_vars, screen_vars>>

\* board.set_selected(player), on any cell and in any state
BoardSetSelected ==
    /\ \E r \in {set_selected(Board, player)} :
          /\ BoardBecomes(r.board)
          /\ player' = PlayerAfter(r.res)
          /\ last'   = Last("set_selected", r.res, "Ok")
    /\ UNCHANGED <<score, running, run_vars, screen_vars>>

NextCursor ==
    \/ BoardUp
    \/ BoardDown
    \/ BoardLeft
    \/ BoardRight
    \/ BoardSetSelected
    \/ BoardRestart

SpecCursor == InitCursor /\ [][NextCursor]_vars

(* ------------------------------------------------------------------------ *)
(* Board driven directly with a win length no line of the grid can hold:    *)
(* Board::new(W, H, max(W, H) + 1), which the argument parser accepts.       *)
(* ------------------------------------------------------------------------ *)

\* std::cmp::max
max(a, b) == IF a >= b THEN a ELSE b

InitLong ==
    \E sz \in BoardSizes :
        LET b == new(sz[1], sz[2], max(sz[1], sz[2]) + 1)
        IN /\ cells    = b.cells
           /\ selected = b.selected
           /\ size     = b.size
           /\ win_len  = b.win_len
           /\ win      = b.win
           /\ state    = b.state
           /\ player   = "Cross"
           /\ score    = <<0, 0>>
           /\ running  = TRUE
           /\ last     = Last("new", NoCall, "Ok")
           /\ modes    = Modes(FALSE, FALSE, FALSE)
           /\ pc       = "start"
           /\ returned = None
           /\ frame    = None
           /\ rendered = 0

SpecLong == InitLong /\ [][NextBoard]_vars

(* ------------------------------------------------------------------------ *)
(* The win scanner as a function of the grid: Board::check_state applied to *)
(* a board of any shape, any win length up to one more than its longer side *)
(* and any content of the grid.                                             *)
(* ------------------------------------------------------------------------ *)

\* the contents explored for a grid of n cells: every content of the smallest
\* grid, and of a larger grid every content with at most MaxCircle Circle marks
Grids(n) ==
    {g \in [1..n -> Cell] :
        \/ n <= MinSize * MinSize
        \/ Cardinality({i \in 1..n : g[i] = "Circle"}) <= MaxCircle}

InitScan ==
    \E sz \in BoardSizes :
        \E k \in MinSize..(max(sz[1], sz[2]) + 1) :
            /\ cells    \in Grids(sz[1] * sz[2])
            /\ selected = <<0, 0>>
            /\ size     = sz
            /\ win_len  = k
            /\ win      = None
            /\ state    = None
            /\ player   = "Cross"
            /\ score    = <<0, 0>>
            /\ running  = TRUE
            /\ last     = Last("new", NoCall, "Ok")
            /\ modes    = Modes(FALSE, FALSE, FALSE)
            /\ pc       = "start"
            /\ returned = None
            /\ frame    = None
            /\ rendered = 0

\* self.state = self.check_state()
CheckState ==
    /\ last.key = "new"
    /\ \E r \in {check_state(cells, size, win_len, win)} :
          /\ state' = r.state
          /\ win'   = r.win
    /\ last' = Last("check_state", NoCall, "Ok")
    /\ UNCHANGED <<cells, selected, size, win_len, player, score, running,
                   run_vars, screen_vars>>

NextScan == CheckState

SpecScan == InitScan /\ [][NextScan]_vars

(* ------------------------------------------------------------------------ *)
(* Vocabulary of the properties (stated on the grid, not on the scanner)     *)
(* ------------------------------------------------------------------------ *)

Marks == {"Cross", "Circle"}

W == size[1]

H == size[2]

InGrid(p) == p[1] \in 0..(W - 1) /\ p[2] \in 0..(H - 1)

\* the mark at grid position p (p in the grid)
MarkAt(p) == cells[p[1] + p[2] * W + 1]

GridCells == (0..(W - 1)) \X (0..(H - 1))

Directions == {<<1, 0>>, <<0, 1>>, <<1, 1>>, <<-1, 1>>}

\* the i-th position of the line from o along d
Step(o, d, i) == <<o[1] + i * d[1], o[2] + i * d[2]>>

\* o, d name a run of win_len marks c lying inside the grid: the win_len
\* positions o + i * d are in the grid and hold c
IsRun(o, d, c) ==
    \A i \in 0..(win_len - 1) : InGrid(Step(o, d, i)) /\ MarkAt(Step(o, d, i)) = c

HasRun(c) == \E o \in GridCells : MarkAt(o) = c /\ \E d \in Directions : IsRun(o, d, c)

\* the marks that have a run on the grid
RunMarks == {c \in Marks : HasRun(c)}

Full == \A p \in GridCells : MarkAt(p) # "Empty"

\* the last operation was a Board::set (directly or through Enter) that
\* succeeded / that failed
SetOk == last.set.tag = "Ok"

SetFailed == last.set.tag = "Err"

(* ------------------------------------------------------------------------ *)
(* Properties                                                               *)
(* ------------------------------------------------------------------------ *)

\* C1 (win completeness): after a successful Board::set that leaves a run of
\* win_len identical marks c inside the grid (along a row, a column or either
\* diagonal), the state is Some(c), a win of that mark.
C1_WinComplete ==
    SetOk => \A c \in RunMarks : state = Some(c)

\* C1 witness: on the 4 x 3 board with win_len 3, a successful set completed
\* an anti-diagonal run of Circle that starts in the last column.
C1_Witness ==
    /\ SetOk
    /\ size = <<4, 3>>
    /\ win_len = 3
    /\ IsRun(<<3, 0>>, <<-1, 1>>, "Circle")
    /\ state = Some("Circle")

\* C2 (win soundness): the win record is Some exactly when the state is a win
\* Some(c) of a mark c; it is then (o, d) with d one of the four directions,
\* and the win_len cells o + i * d lie inside the grid and all hold c.
C2_WinSound ==
    /\ (win # None) <=> (\E c \in Marks : state = Some(c))
    /\ \A c \in Marks :
          state = Some(c) =>
              /\ Len(win) = 1
              /\ win[1][2] \in Directions
              /\ InGrid(win[1][1])
              /\ IsRun(win[1][1], win[1][2], c)

\* C2 witness: a win of Cross recorded along a column of the 3 x 4 board.
C2_Witness ==
    /\ state = Some("Cross")
    /\ size = <<3, 4>>
    /\ win = Some(<<<<1, 1>>, <<0, 1>>>>)

\* C3 (draw correctness): the state is the draw Some(Empty) exactly when no
\* cell is Empty and no run of win_len identical marks exists; a full board
\* with a run is a win, and a board with an Empty cell and no run is in
\* progress (None).
C3_DrawCorrect ==
    LET runs == RunMarks
    IN /\ (state = Some("Empty")) <=> (Full /\ runs = {})
       /\ (Full /\ runs # {}) => \E c \in runs : state = Some(c)
       /\ (~Full /\ runs = {}) => state = None

\* C3 witness: a drawn 3 x 3 game with win_len 3, reached by a set.
C3_Witness ==
    /\ SetOk
    /\ state = Some("Empty")
    /\ size = <<3, 3>>
    /\ win_len = 3
    /\ Full

\* C3, second case: the placement that fills the last cell completes a run.
C3_FullWin ==
    /\ SetOk
    /\ Full
    /\ state = Some("Cross")

\* C4 as claimed: a failed set reports the error kind CellOccupied (game in
\* progress, cell taken) or GameEnded (game finished).
C4_Original ==
    SetFailed =>
        /\ last.set.err[1] \in {"CellOccupied", "GameEnded"}
        /\ (state # None <=> last.set.err[1] = "GameEnded")

\* C4 (amended): Board::set fails with the one error kind Msg of the error
\* set {IO, Msg, Exit}, told apart by its text: "game ended" whenever the
\* state is not None (whatever the cell holds), "Not empty cell" when the game
\* is in progress and the target cell is not Empty; otherwise it succeeds.
C4_SetErrors ==
    [][last'.set.tag # "NoCall" =>
          /\ last'.set.tag = "Err" => last'.set.err[1] \in ErrorKinds
          /\ state # None => last'.set = Err(Msg("game ended"))
          /\ (state = None /\ MarkAt(selected) # "Empty")
                => last'.set = Err(Msg("Not empty cell"))
          /\ (state = None /\ MarkAt(selected) = "Empty") => last'.set.tag = "Ok"]_vars

\* C4 witness: Enter on a drawn board (every cell taken) failed with the
\* text of the finished game.
C4_Witness ==
    /\ last.key = "Enter"
    /\ last.set = Err(Msg("game ended"))
    /\ state = Some("Empty")
    /\ MarkAt(selected) # "Empty"

\* C5 (frame of a failed set): a set that fails leaves cells, selected, state
\* and win (and the turn) as they were, and a set on an Empty cell of a game
\* in progress, after a failure as well, succeeds and writes the player's mark.
C5_FailedSetFrame ==
    [][/\ last'.set.tag = "Err" => UNCHANGED <<cells, selected, state, win, player>>
       /\ (last'.set.tag # "NoCall" /\ state = None /\ MarkAt(selected) = "Empty")
             => /\ last'.set.tag = "Ok"
                /\ cells' = [cells EXCEPT ![selected[1] + selected[2] * W + 1] = player]]_vars

\* C5 witness: Circle's Enter on a taken cell of a game in progress failed.
C5_Witness ==
    /\ last.key = "Enter"
    /\ last.set = Err(Msg("Not empty cell"))
    /\ state = None
    /\ player = "Circle"
    /\ MarkAt(selected) = "Cross"

\* C6 (terminal stickiness): from a state that is not None, every step other
\* than the restart key leaves cells, state and win unchanged, and every set
\* fails.
C6_TerminalSticky ==
    [][(state # None /\ last'.key # "r") =>
          /\ UNCHANGED <<cells, state, win>>
          /\ last'.set.tag # "NoCall" => last'.set.tag = "Err"]_vars

\* C6 witness: after a win of Cross an Enter on an Empty cell was rejected.
C6_Witness ==
    /\ state = Some("Cross")
    /\ last.key = "Enter"
    /\ SetFailed
    /\ MarkAt(selected) = "Empty"

\* C7 as claimed: every successful Enter, whatever state it returns, flips the
\* player; a failed one leaves it.
C7_Original ==
    [][last'.set.tag # "NoCall" =>
          player' = IF last'.set.tag = "Ok" THEN next(player) ELSE player]_vars

\* C7 (amended): Enter flips the player exactly when set_selected returns
\* Ok(None), the game still in progress; when it returns Ok(Some(_)), a win or
\* a draw, and when it fails, the player is unchanged.
C7_TurnAdvance ==
    [][last'.set.tag # "NoCall" =>
          player' = IF last'.set = Ok(None) THEN next(player) ELSE player]_vars

\* C7 witness: Cross has just won by Enter and is still the player; a
\* Circle mark on the grid shows that the turn did flip earlier.
C7_Witness ==
    /\ last.key = "Enter"
    /\ last.set = Ok(Some("Cross"))
    /\ player = "Cross"
    /\ \E p \in GridCells : MarkAt(p) = "Circle"

\* C8 (restart): the restart key, in any state, leaves every cell Empty, the
\* state None, the win record None and the player Cross, keeps selected, and
\* pressed again right after changes nothing.
C8_Restart ==
    [][last'.key = "r" =>
          /\ cells' = EmptyCells(W * H)
          /\ state' = None
          /\ win' = None
          /\ player' = "Cross"
          /\ selected' = selected
          /\ last.key = "r" => UNCHANGED vars]_vars

\* C8 witness: restart after a win of Cross (the score shows it), with the
\* cursor kept where the game ended.
C8_Witness ==
    /\ last.key = "r"
    /\ score = <<1, 0>>
    /\ selected = <<2, 1>>
    /\ cells = EmptyCells(W * H)

\* C9 as claimed: the new board has the cursor on the grid centre.
C9_Original ==
    last.key = "new" =>
        /\ selected = <<W \div 2, H \div 2>>
        /\ cells = EmptyCells(W * H)
        /\ state = None
        /\ win = None

\* C9 (amended): Board::new(W, H, K) starts with the cursor at (0, 0), with
\* W * H Empty cells, state None and win None.
C9_NewBoard ==
    last.key = "new" =>
        /\ selected = <<0, 0>>
        /\ Len(cells) = W * H
        /\ \A i \in 1..Len(cells) : cells[i] = "Empty"
        /\ state = None
        /\ win = None

\* C9 witness: the 4 x 3 board right after construction.
C9_Witness ==
    /\ last.key = "new"
    /\ size = <<4, 3>>
    /\ Len(cells) = 12

MoveKeys == {"Up", "Down", "Left", "Right"}

\* the cursor after one step in the direction of key, stopping at the edge
Stepped(key) ==
    CASE key = "Up"    -> <<selected[1], IF selected[2] = 0 THEN 0 ELSE selected[2] - 1>>
      [] key = "Down"  -> <<selected[1], IF selected[2] = H - 1 THEN H - 1 ELSE selected[2] + 1>>
      [] key = "Left"  -> <<IF selected[1] = 0 THEN 0 ELSE selected[1] - 1, selected[2]>>
      [] key = "Right" -> <<IF selected[1] = W - 1 THEN W - 1 ELSE selected[1] + 1, selected[2]>>

\* C10 (cursor): the cursor is always inside the grid; a move key moves it by
\* exactly one step in its direction, stopping at the edge, in every state
\* (finished games too), and changes nothing else.
C10_CursorMoves ==
    /\ [](InGrid(selected))
    /\ [][last'.key \in MoveKeys =>
             /\ selected' = Stepped(last'.key)
             /\ UNCHANGED <<cells, size, win_len, win, state, player, score>>]_vars

\* C10 witness: in a finished game the cursor was moved down to the last row.
C10_Witness ==
    /\ state # None
    /\ last.key = "Down"
    /\ selected[2] = H - 1

\* the number of cells that hold a mark
Occupied == Cardinality({i \in 1..Len(cells) : cells[i] # "Empty"})

\* C11 (monotone occupancy): the cell vector always has W * H entries, and in
\* every step other than the restart key (cursor moves, placements accepted
\* or rejected, score reset, resize, other keys, quit) a cell that holds a
\* mark keeps that mark.
C11_MonotoneOccupancy ==
    /\ [](Len(cells) = W * H)
    /\ [][last'.key # "r" =>
             \A i \in 1..Len(cells) : cells[i] # "Empty" => cells'[i] = cells[i]]_vars

\* C11 witness: an accepted placement on a grid that already held four marks.
C11_Witness ==
    /\ last.key = "Enter"
    /\ SetOk
    /\ Occupied = 5
    /\ Len(cells) = W * H

\* C12 as claimed: 'r' and 'R' are both the restart event: after either every
\* cell is Empty, the state and the win record are None and the player is
\* Cross.
C12_Original ==
    [][last'.key \in {"r", "R"} =>
          /\ cells' = EmptyCells(W * H)
          /\ state' = None
          /\ win' = None
          /\ player' = "Cross"]_vars

\* C12 (amended): only 'r' is the restart event: it empties every cell, sets
\* the state and the win record to None and the player to Cross, and keeps
\* the score.  'R' sets the score to (0, 0) and leaves the board (cells,
\* cursor, state, win record) and the player as they were.
C12_RestartKeys ==
    [][/\ last'.key = "r" =>
             /\ cells' = EmptyCells(W * H)
             /\ state' = None
             /\ win' = None
             /\ player' = "Cross"
             /\ score' = score
       /\ last'.key = "R" =>
             /\ score' = <<0, 0>>
             /\ UNCHANGED <<board_vars, player>>]_vars

\* C12 witness: 'R' pressed after a win of Cross: the score is back to (0, 0)
\* and the finished game is still on the board.
C12_Witness ==
    /\ last.key = "R"
    /\ state = Some("Cross")
    /\ win # None
    /\ score = <<0, 0>>

\* C13 as claimed: whenever App::run has returned, the alternate screen is
\* left, the cursor is shown and raw mode is disabled.
C13_Released ==
    pc = "done" => modes = Modes(FALSE, FALSE, FALSE)

\* the events whose handler ends with self.render()
RenderingKeys == {"Up", "Down", "Left", "Right", "Enter", "r", "Resize"}

C20_RenderOrdering ==
    /\ []((running /\ last.key = "new") => (rendered = 1 /\ frame = Some(Frame)))
    /\ [](frame = None => last.key \in {"new", "IO"})
    /\ [][last'.key \in RenderingKeys =>
             (rendered' = 1 /\ frame' = Some(Frame'))]_vars
    /\ [][last'.key = "Other" =>
             (rendered' = 0 /\ UNCHANGED <<board_vars, player, score, frame>>)]_vars

\* C20 witness: an accepted Enter that ended the game, drawn once with the
\* finished board.
C20_Witness ==
    /\ last.key = "Enter"
    /\ SetOk
    /\ state # None
    /\ rendered = 1
    /\ frame = Some(Frame)

\* C15 (win length longer than the grid): with win_len > max(W, H) the state
\* is never a win and the win record stays None; the game is in progress
\* (None) while a cell is Empty and a draw (Some(Empty)) once the grid is
\* full.
C15_NoWinLongRun ==
    win_len > max(W, H) =>
        /\ win = None
        /\ \A c \in Marks : state # Some(c)
        /\ ~Full => state = None
        /\ Full => state = Some("Empty")

\* C15 witness: the 4 x 3 grid with win_len 5 filled to the last cell, whose
\* rows hold four equal marks in a line.
C15_Witness ==
    /\ SetOk
    /\ size = <<4, 3>>
    /\ win_len = 5
    /\ Full
    /\ \A x \in 0..3 : MarkAt(<<x, 0>>) = "Cross"
    /\ state = Some("Empty")

\* the rank of a segment in the order of the scan: rows top to bottom, cells
\* left to right, then the directions in the order (1,0), (0,1), (1,1), (-1,1)
DirRank(d) == CHOOSE i \in 1..4 : Dirs[i] = d

ScanRank(o, d) == (o[2] * W + o[1]) * 4 + (DirRank(d) - 1)

\* the segment from o along d is a run of win_len equal marks on the grid
IsWinningRun(o, d) == MarkAt(o) # "Empty" /\ IsRun(o, d, MarkAt(o))

\* C19 (tie-break): the win record a successful set leaves is a winning run,
\* and the first one in scan order: no winning run starts at an earlier cell
\* in row-major order, and none starts at the same cell in an earlier
\* direction of the order (1,0), (0,1), (1,1), (-1,1).
C19_TieBreak ==
    (SetOk /\ win # None) =>
        /\ IsWinningRun(win[1][1], win[1][2])
        /\ \A o \in GridCells, d \in Directions :
              ScanRank(o, d) < ScanRank(win[1][1], win[1][2]) => ~IsWinningRun(o, d)

\* C19 witness: one placement completed the top row and the left column of
\* Cross; the row is recorded.
C19_Witness ==
    /\ SetOk
    /\ IsRun(<<0, 0>>, <<1, 0>>, "Cross")
    /\ IsRun(<<0, 0>>, <<0, 1>>, "Cross")
    /\ win = Some(<<<<0, 0>>, <<1, 0>>>>)

(* ------------------------------------------------------------------------ *)
(* The screen after a render: the buffer cell at a position is what the     *)
(* last write of a character, and the last write of a colour, left there.   *)
(* ------------------------------------------------------------------------ *)

\* a buffer cell no write has touched
Blank == [ch |-> " ", fg |-> "Default"]

MaxOf(S) == CHOOSE m \in S : \A n \in S : n <= m

\* the buffer cell at p after the writes ws, base being the cell before them
CellAfter(ws, p, base) ==
    LET hits == {i \in DOMAIN ws : ws[i].x = p[1] /\ ws[i].y = p[2]}
        chs  == {i \in hits : ws[i].ch # Keep}
        fgs  == {i \in hits : ws[i].fg # Keep}
    IN [ch |-> IF chs = {} THEN base.ch ELSE ws[MaxOf(chs)].ch,
        fg |-> IF fgs = {} THEN base.fg ELSE ws[MaxOf(fgs)].fg]

\* the buffer after render_inner and render_outer, the two layers that depend
\* on the size of the board alone, for every shape explored: the cells of the
\* rectangle (0..4W) x (0..2H), row by row
Background ==
    [sz \in BoardSizes |->
        LET b    == new(sz[1], sz[2], MinSize)
            ws   == render_inner(b) \o render_outer(b)
            cols == 4 * sz[1] + 1
            rows == 2 * sz[2] + 1
        IN [i \in 1..(cols * rows) |->
               CellAfter(ws, <<(i - 1) % cols, (i - 1) \div cols>>, Blank)] \o <<>>]

\* the cell of the background at position p of the rectangle
BackgroundAt(sz, p) == Background[sz][p[1] + p[2] * (4 * sz[1] + 1) + 1]

\* the three layers drawn over the background: marks, cursor frame, strike-through
Foreground(b) == render_cells(b) \o render_sel(b) \o render_win(b)

\* the position where the mark of grid cell p is drawn
MarkPos(p) == <<4 * p[1] + 2, 2 * p[2] + 1>>

\* C16 as claimed: width() is 4W + 1 and height() is 2H + 1, and they are the
\* number of columns and of rows a render writes: the rightmost column
\* written is 4W, the lowest row written is 2H.
C16_Extent ==
    \A ws \in {Board_render(Board)} :
        LET xs == {ws[i].x : i \in DOMAIN ws}
            ys == {ws[i].y : i \in DOMAIN ws}
        IN /\ MaxOf(xs) = 4 * W
           /\ MaxOf(ys) = 2 * H
           /\ height(Board) = 2 * H + 1
           /\ height(Board) = MaxOf(ys) + 1
           /\ width(Board) = 4 * W + 1
           /\ width(Board) = MaxOf(xs) + 1

\* (x, y) is the position where the mark of some grid cell is drawn
OnMarkPos(x, y) ==
    LET p == <<x \div 4, y \div 2>>
    IN InGrid(p) /\ MarkPos(p) = <<x, y>>

\* C17 (marks on the screen): the cursor frame and the strike-through, the two
\* layers drawn after the marks, write on no mark position (4x + 2, 2y + 1);
\* so after the five layers of a render the cell there is what render_cells
\* left over the lines: a green X exactly when grid cell (x, y) is Cross, a
\* red O exactly when it is Circle, and neither letter when it is Empty.
C17_MarksShown ==
    /\ \A over \in {render_sel(Board) \o render_win(Board)} :
          \A i \in DOMAIN over : ~OnMarkPos(over[i].x, over[i].y)
    /\ \A marks \in {render_cells(Board)} :
          \A p \in GridCells :
              \A c \in {CellAfter(marks, MarkPos(p), BackgroundAt(size, MarkPos(p)))} :
                  /\ (c = [ch |-> "X", fg |-> "Green"]) <=> (MarkAt(p) = "Cross")
                  /\ (c = [ch |-> "O", fg |-> "Red"]) <=> (MarkAt(p) = "Circle")
                  /\ MarkAt(p) = "Empty" => c.ch \notin {"X", "O"}

\* C17 witness: Cross has won along the falling diagonal, whose strike-through
\* passes the mark positions, with the cursor frame around the centre mark.
C17_Witness ==
    /\ state = Some("Cross")
    /\ win = Some(<<<<0, 0>>, <<1, 1>>>>)
    /\ selected = <<1, 1>>
    /\ \E p \in GridCells : MarkAt(p) = "Circle"

\* the line glyph of the strike-through along d
LineGlyph(d) ==
    IF d = <<1, 0>> THEN "-"
    ELSE IF d = <<0, 1>> THEN "|"
    ELSE IF d = <<1, 1>> THEN "\\"
    ELSE "/"

\* the positions of the line glyphs of a strike-through from grid cell o
\* along d over k cells
LinePositions(o, d, k) ==
    IF d = <<1, 0>> THEN {<<4 * o[1] + 1 + 2 * i, 2 * o[2] + 1>> : i \in 0..(2 * k - 1)}
    ELSE IF d = <<0, 1>> THEN {<<4 * o[1] + 2, 2 * o[2] + 2 * i>> : i \in 0..k}
    ELSE IF d = <<1, 1>> THEN {<<4 * o[1] + 4 * i, 2 * o[2] + 2 * i>> : i \in 0..k}
    ELSE {<<4 * o[1] + 4 - 4 * i, 2 * o[2] + 2 * i>> : i \in 0..k}

\* C18 (strike-through): with win = Some((o, d)) render_win writes the line
\* glyph of d ('-', '|', backslash, '/'), in the colour of the winner's mark,
\* at exactly the positions of the line: 2K dashes from (4ox + 1, 2oy + 1) two
\* columns apart for (1,0); K + 1 glyphs from (4ox + 2, 2oy), (4ox, 2oy),
\* (4ox + 4, 2oy) in steps (0,2), (4,2), (-4,2) for (0,1), (1,1), (-1,1); these
\* glyphs are what the screen shows there.  With win = None it writes nothing.
C18_StrikeThrough ==
    \A ws \in {render_win(Board)} :
        IF win = None THEN ws = <<>>
        ELSE LET o    == win[1][1]
                 d    == win[1][2]
                 g    == LineGlyph(d)
                 col  == IF state = Some("Cross") THEN "Green" ELSE "Red"
                 line == LinePositions(o, d, win_len)
             IN /\ {<<ws[i].x, ws[i].y>> : i \in {j \in DOMAIN ws : ws[j].ch = g}} = line
                /\ \A i \in DOMAIN ws : ws[i].fg = col
                /\ \A top \in {Foreground(Board)} :
                      \A p \in line :
                          CellAfter(top, p, BackgroundAt(size, p)) = [ch |-> g, fg |-> col]

\* C18 witness: Circle has won along the rising diagonal of the 4 x 3 board
\* that starts in the last column.
C18_Witness ==
    /\ size = <<4, 3>>
    /\ state = Some("Circle")
    /\ win = Some(<<<<3, 0>>, <<-1, 1>>>>)
    /\ Len(render_win(Board)) = 3 * win_len + 1

\* ---------------------------------------------------------------------------
\* the number of cells of the board that hold the mark c
CountOf(c) == Cardinality({i \in DOMAIN cells : cells[i] = c})

\* C21: in every state the controller reaches, player is Cross or Circle,
\* the board holds as many Cross marks as Circle marks or one more, and while
\* the game is in progress player is Cross exactly when the two counts are
\* equal.
C21_TurnAlternation ==
    /\ player \in Marks
    /\ CountOf("Cross") - CountOf("Circle") \in {0, 1}
    /\ state = None =>
          (player = "Cross" <=> CountOf("Cross") = CountOf("Circle"))

\* a game in progress in which Circle is to move: Cross placed its second
\* mark in the Enter arm just handled
C21_Witness ==
    /\ state = None
    /\ player = "Circle"
    /\ CountOf("Cross") = 2
    /\ CountOf("Circle") = 1
    /\ last.key = "Enter"
    /\ last.set = Ok(None)

\* ---------------------------------------------------------------------------
\* C22: whenever a placement of the mark c ends the game in a win, the state
\* stored and returned is the win of c, the mark just placed, and the recorded
\* segment (win_len cells from its origin along its direction) contains the
\* cell that the placement filled.
C22_WinnerIsMover ==
    [][(/\ last'.set.tag = "Ok"
        /\ state = None
        /\ state' # None
        /\ state' # Some("Empty"))
       => /\ state' = Some(player)
          /\ last'.set = Ok(Some(player))
          /\ win' # None
          /\ \E i \in 0..(win_len - 1) :
                \E p \in {Step(win'[1][1], win'[1][2], i)} :
                   /\ InGrid(p)
                   /\ cells[p[1] + p[2] * W + 1] = "Empty"
                   /\ cells'[p[1] + p[2] * W + 1] = player]_vars

\* Circle has just won on the 4 x 3 board along the (-1,1) diagonal
C22_Witness ==
    /\ size = <<4, 3>>
    /\ state = Some("Circle")
    /\ last.set = Ok(Some("Circle"))
    /\ player = "Circle"
    /\ win # None
    /\ win[1][2] = <<-1, 1>>

\* ---------------------------------------------------------------------------
\* C23: every game ends.  A placement succeeds only while the game is in
\* progress and fills exactly one more cell, so the placements that succeeded
\* since the last restart are the occupied cells: there are never more than
\* W * H of them, and once there are W * H the state is a win or the draw.
\* Players who keep placing on empty cells therefore reach a terminal state
\* after at most W * H placements.
C23_GameEnds ==
    /\ [](Occupied <= W * H /\ (Occupied = W * H => state # None))
    /\ [][last'.set.tag = "Ok"
            => (state = None /\ Occupied' = Occupied + 1)]_vars
    /\ [][last'.key = "restart" => Occupied' = 0]_vars

\* the twelfth placement on the 4 x 3 board succeeded and ended the game in
\* the draw
C23_Witness ==
    /\ size = <<4, 3>>
    /\ Occupied = 12
    /\ last.set = Ok(Some("Empty"))
    /\ state = Some("Empty")

\* ---------------------------------------------------------------------------
\* C24: for every shape, every win length (also one longer than both sides)
\* and every content of the grid, each position the win scanner reads lies in
\* the grid: column in 0..W-1, row in 0..H-1, hence cell index in 0..W*H-1.
\* No (-1,1) test reads a negative column and no test runs from the end of a
\* row into the next row.
C24_ScanInGrid ==
    \A p \in check_state_reads(cells, size, win_len) :
        /\ InGrid(p)
        /\ p[1] + p[2] * W \in 0..(W * H - 1)

\* the scan of a 4 x 3 grid ended at (2,0) with the (-1,1) run that reaches
\* column 0
C24_Witness ==
    /\ last.key = "check_state"
    /\ size = <<4, 3>>
    /\ win_len = 3
    /\ win = Some(<<<<2, 0>>, <<-1, 1>>>>)
    /\ <<0, 2>> \in check_state_reads(cells, size, win_len)

\* ---------------------------------------------------------------------------
\* C25: for every board the controller reaches, every character the widget
\* writes (borders, marks, cursor frame, strike-through and its fillers) lies
\* at a position inside 0..4W x 0..2H relative to the buffer's origin, and no
\* coordinate computed while rendering is below 0, the leftward steps of the
\* (-1,1) strike-through included.
C25_InsideExtent ==
    /\ \A org \in Origins :
          \A tr \in {render_win_match(Board, org)} :
             \A i \in DOMAIN tr :
                /\ tr[i].x >= 0
                /\ tr[i].y >= 0
                /\ tr[i].ch # NoWrite =>
                      /\ tr[i].x - org[1] \in 0..(4 * W)
                      /\ tr[i].y - org[2] \in 0..(2 * H)
    /\ \A ws \in {Board_render(Board)} :
          \A i \in DOMAIN ws :
             ws[i].x \in 0..(4 * W) /\ ws[i].y \in 0..(2 * H)

\* ---------------------------------------------------------------------------
\* the step handled Enter and its placement ended the game with r
EndedWith(r) == last'.key = "Enter" /\ last'.set = Ok(Some(r))

\* C26 as claimed: the score changes only in a step whose placement ends a
\* game.
C26_Original ==
    [][score' # score =>
          \E r \in Cell : EndedWith(r)]_vars

\* C26 (amended): the score changes only on a placement that ends a game and
\* on 'R'.  A win of Cross adds 1 to the first counter, a win of Circle 1 to
\* the second, a draw 1 to both, so each finished game is counted once; 'R'
\* sets both counters to 0; every other event (a rejected Enter, a placement
\* that does not end the game, restart, a cursor move, quit, resize) leaves
\* the score as it was.
C26_ScoreChanges ==
    [][/\ EndedWith("Cross")  => score' = <<score[1] + 1, score[2]>>
       /\ EndedWith("Circle") => score' = <<score[1], score[2] + 1>>
       /\ EndedWith("Empty")  => score' = <<score[1] + 1, score[2] + 1>>
       /\ last'.key = "R"     => score' = <<0, 0>>
       /\ (last'.key # "R" /\ ~(\E r \in Cell : EndedWith(r)))
             => score' = score]_vars

\* the Enter just handled filled the grid without a run: the draw is counted
\* for both players
C26_Witness ==
    /\ last.key = "Enter"
    /\ last.set = Ok(Some("Empty"))
    /\ state = Some("Empty")
    /\ score = <<1, 1>>

====
